---- MODULE Spec2Model ----
(***************************************************************************)
(* Model of the WhatsApp ingestion bot: the session connector              *)
(* (whatsapp/Connection.ts), the ingestion pipeline and event normalizer    *)
(* (whatsapp/MessageStream.ts), the message repository                      *)
(* (database/Repository.ts, database/Schema.ts), the reconciliation         *)
(* scheduler (effects/Logger.ts, main.ts) and the auth state store          *)
(* (part_003).                                                              *)
(*                                                                         *)
(* Spec is the program on a socket that raises no connection or credential *)
(* event and without signals; ConnSpec is the connector with these events,  *)
(* the close of its scope and the termination signals; RepoSpec and         *)
(* AuthSpec are the two repositories driven by a caller, RepoSpec next to   *)
(* the scheduled sweep; CallSpec is the normalizer and the summary line     *)
(* applied to one input; LiveSpec is Spec under fair scheduling.            *)
(*                                                                         *)
(* Strings the code takes apart (JIDs, content) are sequences of            *)
(* one-character strings; opaque strings (ids, tags) are TLA+ strings.      *)
(* A nullable string that can never be '' is a sequence, with <<>> = null.  *)
(***************************************************************************)
EXTENDS Integers, Sequences, FiniteSets, TLC

VARIABLES
    pc,         \* main program: "connecting" | "waiting" | "running" | "failed" |
                \* "exited" | "terminated" (process.exit on a signal);
                \* "direct" when the services are driven by a direct caller
    attempts,   \* connection attempts started by connect()
    queue,      \* messageQueue: batches held by the bounded queue
    putters,    \* offers suspended on the full queue, oldest first
    delivered,  \* batches the transport has delivered to the callback
    consumer,   \* the stream consumer fiber: "running" | "dead"
    taken,      \* batches pulled from the queue in one chunk, not yet processed
    pending,    \* normalized records of the dequeued batch not yet forwarded
    lastPos,    \* delivery position of the record of the last insert attempt
    messages,   \* the messages table: a set of rows
    now,        \* wall clock (seconds)
    sweepPc,    \* the sweep in progress: "idle" | "marking"
    fetched,    \* records of the running sweep still to be summarized and marked
    dirty,      \* a row was inserted since the running sweep's fetch
    swept,      \* records the running (or last) sweep has marked
    remarked,   \* ids marked again by markAsProcessed when already processed
    inserted,   \* every row as returned by its INSERT ... RETURNING
    result,     \* outcome of the last repository call
    overrun,    \* the 2 second period ran out while the running sweep goes on
    logger,     \* the schedule of startLogging: "running" | "ended"
    transport,  \* what the socket last reported on connection.update
    listeners,  \* event names with a listener registered on the socket
    socketEnded,        \* socket.end has been called
    released,   \* runs of the release of connect()
    credsLog,   \* outcomes of the saveCreds calls, oldest first
    auth_credentials,   \* table auth_credentials: a set of rows
    auth_keys,  \* table auth_keys: a set of rows
    latest,     \* per key slot, the entry of the last successful saveKeys
    authResult, \* outcome of the last call of the auth state repository
    summarized, \* ids whose summary line the running (or last) sweep has logged
    rawEvent,   \* the raw event handed to extractMessageData by a direct caller
    normalized, \* what that call returned
    logContent, \* content of the record a summary line is built for
    logLine     \* the content part of that summary line

\* the variables of the session connector
connVars == <<transport, listeners, socketEnded, released, credsLog>>

\* the variables of the auth state repository
authVars == <<auth_credentials, auth_keys, latest, authResult>>

\* the variables of the direct calls of the pure functions
callVars == <<rawEvent, normalized, logContent, logLine>>

vars == <<pc, attempts, queue, putters, delivered, consumer, taken, pending, lastPos,
          messages, now, sweepPc, fetched, dirty, swept, remarked, inserted, result,
          overrun, logger, connVars, authVars, summarized, callVars>>

(***************************************************************************)
(* Bounds of the model.                                                    *)
(***************************************************************************)
\* Capacity used for Queue.bounded; the program's value is 1000
\* (MessageStream.ts line 110), scaled so that the full queue is reached.
QueueCapacity == 2
\* Batches the transport delivers in one run.
MaxBatches == 3
\* Last value of the wall clock.
MaxClock == 1
\* creds.update events the socket raises in one run.
MaxCredsUpdates == 2

(***************************************************************************)
(* Program constants.                                                      *)
(***************************************************************************)
\* Schedule.recurs(5)
ScheduleRecurs == 5
\* DefaultChunkSize of Stream, the most Stream.fromQueue takes at once
DefaultChunkSize == 4096

(***************************************************************************)
(* Strings.                                                                *)
(***************************************************************************)
Null == <<>>
NoId == "undefined"

\* s.indexOf(c) + 1, 0 when c does not occur
RECURSIVE IndexFrom(_, _, _)
IndexFrom(s, c, i) ==
    IF i > Len(s) THEN 0
    ELSE IF s[i] = c THEN i
    ELSE IndexFrom(s, c, i + 1)

\* s.split(c)[0]
SplitFirst(s, c) ==
    LET i == IndexFrom(s, c, 1)
    IN  IF i = 0 THEN s ELSE SubSeq(s, 1, i - 1)

\* s.includes(t)
Includes(s, t) ==
    \E i \in 1..(Len(s) - Len(t) + 1) : SubSeq(s, i, i + Len(t) - 1) = t

GroupSuffix == <<"@", "g", ".", "u", "s">>

\* the number with its device part kept: fullId.split('@')[0]
numberWithDevice(fullId) ==
    IF fullId = Null THEN Null
    ELSE SplitFirst(fullId, "@")

\* extractNumber: fullId.split('@')[0]?.split(':')[0] || null
extractNumber(fullId) ==
    IF fullId = Null THEN Null
    ELSE SplitFirst(SplitFirst(fullId, "@"), ":")

(***************************************************************************)
(* Raw events (proto.IWebMessageInfo).  A missing string field is <<>>     *)
(* (the code only tests these for truthiness), a missing id is NoId, a     *)
(* missing messageTimestamp is 0 (falsy as well) and InvalidTs is a value  *)
(* outside the range of Date, whose toISOString() throws.                  *)
(***************************************************************************)
InvalidTs == -1

NoMessage ==
    [present |-> FALSE, conversation |-> <<>>, extendedText |-> <<>>,
     image |-> FALSE, imageCaption |-> <<>>, video |-> FALSE,
     videoCaption |-> <<>>, audio |-> FALSE, sticker |-> FALSE,
     document |-> FALSE, fileName |-> <<>>]

TextMessage(t) == [NoMessage EXCEPT !.present = TRUE, !.conversation = t]

ImageMessage(caption) ==
    [NoMessage EXCEPT !.present = TRUE, !.image = TRUE, !.imageCaption = caption]

RawEvent(hasKey, id, jid, fromMe, participant, ts, msg) ==
    [hasKey |-> hasKey, id |-> id, remoteJid |-> jid, fromMe |-> fromMe,
     participant |-> participant, messageTimestamp |-> ts, message |-> msg]

ImagePlaceholder == <<"[", "I", "m", "a", "g", "e", "]">>
VideoPlaceholder == <<"[", "V", "i", "d", "e", "o", "]">>
AudioPlaceholder == <<"[", "A", "u", "d", "i", "o", "]">>
StickerPlaceholder == <<"[", "S", "t", "i", "c", "k", "e", "r", "]">>
SpecialPlaceholder ==
    <<"[", "S", "p", "e", "c", "i", "a", "l", " ", "m", "e", "s", "s", "a", "g", "e", "]">>
DocumentPrefix == <<"[", "D", "o", "c", "u", "m", "e", "n", "t", ":", " ">>
NoName == <<"N", "o", " ", "n", "a", "m", "e">>

\* the initial values of content and messageType, no variant tested
unknownType(mi) == [content |-> <<>>, messageType |-> "unknown"]

\* the chain with the video tested before the image
videoBeforeImage(mi) ==
    IF mi.present /\ mi.conversation # <<>>
        THEN [content |-> mi.conversation, messageType |-> "text"]
    ELSE IF mi.present /\ mi.extendedText # <<>>
        THEN [content |-> mi.extendedText, messageType |-> "text"]
    ELSE IF mi.present /\ mi.video
        THEN [content |-> IF mi.videoCaption # <<>> THEN mi.videoCaption
                          ELSE VideoPlaceholder,
              messageType |-> "video"]
    ELSE IF mi.present /\ mi.image
        THEN [content |-> IF mi.imageCaption # <<>> THEN mi.imageCaption
                          ELSE ImagePlaceholder,
              messageType |-> "image"]
    ELSE [content |-> SpecialPlaceholder, messageType |-> "other"]

\* content and messageType: the if / else-if chain over the payload variants
extractContent(mi) ==
    IF mi.present /\ mi.conversation # <<>>
        THEN [content |-> mi.conversation, messageType |-> "text"]
    ELSE IF mi.present /\ mi.extendedText # <<>>
        THEN [content |-> mi.extendedText, messageType |-> "text"]
    ELSE IF mi.present /\ mi.image
        THEN [content |-> IF mi.imageCaption # <<>> THEN mi.imageCaption
                          ELSE ImagePlaceholder,
              messageType |-> "image"]
    ELSE IF mi.present /\ mi.video
        THEN [content |-> IF mi.videoCaption # <<>> THEN mi.videoCaption
                          ELSE VideoPlaceholder,
              messageType |-> "video"]
    ELSE IF mi.present /\ mi.audio
        THEN [content |-> AudioPlaceholder, messageType |-> "audio"]
    ELSE IF mi.present /\ mi.sticker
        THEN [content |-> StickerPlaceholder, messageType |-> "sticker"]
    ELSE IF mi.present /\ mi.document
        THEN [content |-> DocumentPrefix
                          \o (IF mi.fileName # <<>> THEN mi.fileName ELSE NoName)
                          \o <<"]">>,
              messageType |-> "document"]
    ELSE [content |-> SpecialPlaceholder, messageType |-> "other"]

\* from / to by direction and conversation kind
extractParties(message, myNumber) ==
    LET chatId == message.remoteJid
        mine == IF myNumber # <<>> THEN extractNumber(myNumber) ELSE Null
    IN  IF message.fromMe
            THEN [from |-> mine, to |-> extractNumber(chatId)]
        ELSE IF Includes(chatId, GroupSuffix)
            THEN [from |-> extractNumber(IF message.participant # <<>>
                                         THEN message.participant ELSE chatId),
                  to |-> mine]
        ELSE [from |-> extractNumber(chatId), to |-> mine]

\* extractMessageDataEffect(message, myNumber), evaluated at wall-clock time clock.
\* The result is <<>> for null and <<record>> for a record.
extractMessageDataEffect(message, myNumber, clock) ==
    IF ~message.hasKey \/ message.remoteJid = <<>> THEN <<>>
    ELSE IF message.messageTimestamp = InvalidTs THEN <<>>   \* caught RangeError
    ELSE
        LET parties == extractParties(message, myNumber)
            body == extractContent(message.message)
        IN  << [id |-> message.id,
                from |-> parties.from,
                to |-> parties.to,
                chat_id |-> message.remoteJid,
                timestamp |-> IF message.messageTimestamp # 0
                              THEN message.messageTimestamp ELSE clock,
                content |-> body.content,
                messageType |-> body.messageType,
                isFromMe |-> message.fromMe,
                isGroup |-> Includes(message.remoteJid, GroupSuffix),
                processed |-> FALSE] >>

\* WhatsAppMessage.make: the Schema.Class constructor validates its fields and
\* throws on a value that is not of the declared type (id: Schema.String).
MakeValid(m) == m.id # NoId

(***************************************************************************)
(* Message repository over the messages table (a set of rows; the PRIMARY  *)
(* KEY constraint of createTables is enforced by insertMessage).           *)
(***************************************************************************)
HasId(tbl, id) == \E r \in tbl : r.id = id

\* the row an INSERT creates: created_at DEFAULT (datetime('now'))
NewRow(m, clock) ==
    [id |-> m.id, from |-> m.from, to |-> m.to, chat_id |-> m.chat_id,
     timestamp |-> m.timestamp, content |-> m.content,
     messageType |-> m.messageType, isFromMe |-> m.isFromMe,
     isGroup |-> m.isGroup, processed |-> m.processed, createdAt |-> clock]

\* INSERT OR REPLACE instead of INSERT
insertOrReplace(tbl, m, clock) ==
    [ok |-> TRUE,
     table |-> {r \in tbl : r.id # m.id} \cup {NewRow(m, clock)},
     rows |-> {NewRow(m, clock)}]

\* INSERT on a table without the PRIMARY KEY constraint
insertNoKey(tbl, m, clock) ==
    [ok |-> TRUE, table |-> tbl \cup {NewRow(m, clock)}, rows |-> {NewRow(m, clock)}]

\* insertMessage: INSERT ... RETURNING; a stored id violates the PRIMARY KEY
insertMessage(tbl, m, clock) ==
    IF HasId(tbl, m.id)
        THEN [ok |-> FALSE, table |-> tbl, rows |-> {}]
        ELSE [ok |-> TRUE, table |-> tbl \cup {NewRow(m, clock)},
              rows |-> {NewRow(m, clock)}]

\* UPDATE without its WHERE clause
markEvery(tbl, id) ==
    [ok |-> TRUE,
     table |-> {[r EXCEPT !.processed = TRUE] : r \in tbl},
     rows |-> {[r EXCEPT !.processed = TRUE] : r \in tbl}]

\* UPDATE that flips the flag instead of setting it
markToggle(tbl, id) ==
    [ok |-> TRUE,
     table |-> {IF r.id = id THEN [r EXCEPT !.processed = ~r.processed] ELSE r : r \in tbl},
     rows |-> {[r EXCEPT !.processed = ~r.processed] : r \in {q \in tbl : q.id = id}}]

\* markAsProcessed: UPDATE ... SET processed = true WHERE id = ... RETURNING;
\* the call succeeds with result[0], which is undefined when no row matched
\* (rows = {}).
markAsProcessed(tbl, id) ==
    [ok |-> TRUE,
     table |-> {IF r.id = id THEN [r EXCEPT !.processed = TRUE] ELSE r : r \in tbl},
     rows |-> {[r EXCEPT !.processed = TRUE] : r \in {q \in tbl : q.id = id}}]

\* WHERE processed = false
Unprocessed(tbl) == {r \in tbl : ~r.processed}

\* ORDER BY timestamp ASC: every order of the rows that is ascending in timestamp
SortedSeqs(S) ==
    {s \in [1..Cardinality(S) -> S] :
        /\ \A i, j \in 1..Cardinality(S) : i # j => s[i] # s[j]
        /\ \A i, j \in 1..Cardinality(S) : i < j => s[i].timestamp <= s[j].timestamp}

\* the SELECT with LIMIT 1
getUnprocessedFirst(tbl) ==
    {SubSeq(s, 1, IF Len(s) > 1 THEN 1 ELSE Len(s)) : s \in SortedSeqs({r \in tbl : ~r.processed})}

\* getUnprocessedMessages: the sequences the SELECT may return
getUnprocessedMessages(tbl) == SortedSeqs(Unprocessed(tbl))

(***************************************************************************)
(* The events and batches the transport delivers in the model.             *)
(***************************************************************************)
DirectJid == <<"5", "5", "@", "s">>
GroupJid == <<"7", "@", "g", ".", "u", "s">>
ParticipantJid == <<"6", ":", "1", "@", "s">>

\* inbound text in a direct conversation
EvText == RawEvent(TRUE, "m1", DirectJid, FALSE, <<>>, 1, TextMessage(<<"h", "i">>))
\* inbound image without caption in a group, no source timestamp
EvImage == RawEvent(TRUE, "m2", GroupJid, FALSE, ParticipantJid, 0, ImageMessage(<<>>))
\* a conversation identifier but no message identifier
EvNoId == RawEvent(TRUE, NoId, DirectJid, FALSE, <<>>, 1, TextMessage(<<"h", "i">>))
\* no conversation identifier
EvNoJid == RawEvent(TRUE, "m1", <<>>, FALSE, <<>>, 1, TextMessage(<<"h", "i">>))

\* outbound text in a direct conversation
EvSent == RawEvent(TRUE, "m3", DirectJid, TRUE, <<>>, 1, TextMessage(<<"o", "k">>))

\* the local account's JID
MyJid == <<"9", "9", ":", "2", "@", "s">>

Batches == { <<EvNoJid, EvImage, EvText>>, <<EvText, EvNoId, EvImage>> }

(***************************************************************************)
(* Session connector: connect() under Effect.retry(createReconnectionPolicy)*)
(***************************************************************************)
\* the policy with one recurrence less
policyOneLess(recurrences) == recurrences < ScheduleRecurs - 1

\* createReconnectionPolicy: Schedule.recurs(5) lets the schedule recur while
\* fewer than 5 recurrences have been made (exponential and jittered only
\* set the delay).
createReconnectionPolicy(recurrences) == recurrences < ScheduleRecurs

\* An attempt fails (useMultiFileAuthState rejects or makeWASocket throws):
\* Effect.retry runs the acquisition again while the policy recurs, else the
\* error is surfaced.  attempts counts the attempts already started, so the
\* failing attempt is preceded by `attempts` recurrences.
ConnectFail ==
    /\ pc = "connecting"
    /\ attempts' = attempts + 1
    /\ pc' = IF createReconnectionPolicy(attempts) THEN "connecting" ELSE "failed"
    /\ UNCHANGED <<queue, putters, delivered, consumer, taken, pending, lastPos,
                   messages, now, sweepPc, fetched, dirty, swept, remarked, inserted, result,
                   overrun, logger, connVars, authVars,
                   summarized, callVars>>

\* the socket before it has reported anything
NoTransport == [connection |-> "none", lastDisconnect |-> "none"]

\* An attempt succeeds: makeWASocket returns the socket, the connection.update
\* and creds.update listeners are registered, and the acquisition sleeps
\* 3 seconds.
ConnectSucceed ==
    /\ pc = "connecting"
    /\ attempts' = attempts + 1
    /\ pc' = "waiting"
    /\ transport' = [connection |-> "connecting", lastDisconnect |-> "none"]
    /\ listeners' = {"connection.update", "creds.update"}
    /\ UNCHANGED <<queue, putters, delivered, consumer, taken, pending, lastPos,
                   messages, now, sweepPc, fetched, dirty, swept, remarked, inserted, result,
                   overrun, logger, socketEnded, released, credsLog, authVars,
                   summarized, callVars>>

\* The sleep is over: connect() returns the socket; the program forks the
\* consumer, whose createMessageStream registers the messages.upsert
\* listener, and the logging routine.
ConnectReturn ==
    /\ pc = "waiting"
    /\ pc' = "running"
    /\ listeners' = listeners \cup {"messages.upsert"}
    /\ UNCHANGED <<attempts, queue, putters, delivered, consumer, taken, pending,
                   lastPos, messages, now, sweepPc, fetched, dirty, swept, remarked,
                   inserted, result, overrun, logger, transport, socketEnded,
                   released, credsLog, authVars,
                   summarized, callVars>>

\* reasons of a close: DisconnectReason.loggedOut and any other status code
DisconnectReasons == {"loggedOut", "connectionLost"}

\* a connection.update handler that starts a new attempt on every close
reconnectOnClose(p, connection, lastDisconnect) ==
    IF connection = "close" THEN "connecting" ELSE p

\* The connection.update handler: on close it computes shouldReconnect and
\* logs one of two lines, on open it logs; the program's position p is left
\* as it is.
connectionUpdate(p, connection, lastDisconnect) ==
    LET shouldReconnect == lastDisconnect # "loggedOut"
    IN  IF connection = "close"
        THEN (IF shouldReconnect THEN p ELSE p)
        ELSE p

\* The socket reports a connection state: open after connecting, close (with
\* its reason) after connecting or open; a closed socket reports nothing more.
ConnectionUpdate(connection, lastDisconnect) ==
    /\ "connection.update" \in listeners
    /\ pc # "terminated"
    /\ \/ /\ connection = "open"
          /\ lastDisconnect = "none"
          /\ transport.connection = "connecting"
       \/ /\ connection = "close"
          /\ lastDisconnect \in DisconnectReasons
          /\ transport.connection \in {"connecting", "open"}
    /\ transport' = [connection |-> connection, lastDisconnect |-> lastDisconnect]
    /\ pc' = connectionUpdate(pc, connection, lastDisconnect)
    /\ UNCHANGED <<attempts, queue, putters, delivered, consumer, taken, pending,
                   lastPos, messages, now, sweepPc, fetched, dirty, swept, remarked,
                   inserted, result, overrun, logger, listeners, socketEnded,
                   released, credsLog, authVars,
                   summarized, callVars>>

\* getConnectionState: Effect.succeed({ status: "open" }), whatever the socket
\* has reported.
getConnectionState == "open"

\* a creds.update handler that awaits saveCreds without catching: the
\* rejection ends the process
saveCredsUncaught(p, ok) == IF ok THEN p ELSE "exited"

\* The creds.update handler: Effect.runFork of saveCreds with
\* Effect.catchAll(log); the program's position p is left as it is.
credsUpdate(p, ok) == p

\* The socket reports changed credentials; ok = FALSE is a saveCreds that
\* rejects.
CredsUpdate(ok) ==
    /\ "creds.update" \in listeners
    /\ pc \in {"waiting", "running"}
    /\ Len(credsLog) < MaxCredsUpdates
    /\ credsLog' = Append(credsLog, IF ok THEN "saved" ELSE "failed")
    /\ pc' = credsUpdate(pc, ok)
    /\ UNCHANGED <<attempts, queue, putters, delivered, consumer, taken, pending,
                   lastPos, messages, now, sweepPc, fetched, dirty, swept, remarked,
                   inserted, result, overrun, logger, transport, listeners,
                   socketEnded, released, authVars,
                   summarized, callVars>>

\* a release that removes the connector's own two listeners only
removeOwnListeners(l) == l \ {"connection.update", "creds.update"}

\* socket.ev.removeAllListeners for the three event names of the release
removeAllListeners(l) == l \ {"connection.update", "creds.update", "messages.upsert"}

\* The release of Effect.acquireRelease: the listeners are removed and
\* socket.end(undefined) is called.
release ==
    /\ listeners' = removeAllListeners(listeners)
    /\ socketEnded' = TRUE
    /\ released' = released + 1

\* The scope of connect() is closed after the socket was returned (the
\* scoped program completes, fails or is interrupted): the finalizer runs.
ScopeClose ==
    /\ pc = "running"
    /\ pc' = "exited"
    /\ release
    /\ UNCHANGED <<attempts, queue, putters, delivered, consumer, taken, pending,
                   lastPos, messages, now, sweepPc, fetched, dirty, swept, remarked,
                   inserted, result, overrun, logger, transport, credsLog, authVars,
                   summarized, callVars>>

(***************************************************************************)
(* Ingestion pipeline.                                                     *)
(***************************************************************************)
\* Queue.dropping: an offer to a full queue is discarded
offerDropping(q, p, item) ==
    IF Len(q) < QueueCapacity
        THEN [queue |-> Append(q, item), putters |-> p]
        ELSE [queue |-> q, putters |-> p]

\* Queue.offer on Queue.bounded (back-pressure strategy): an offer to a full
\* queue suspends its fiber until there is room; suspended offers are kept in
\* arrival order.
offer(q, p, item) ==
    IF Len(q) < QueueCapacity
        THEN [queue |-> Append(q, item), putters |-> p]
        ELSE [queue |-> q, putters |-> Append(p, item)]

\* the first n elements of s, and the rest
Prefix(s, n) == SubSeq(s, 1, IF n < Len(s) THEN n ELSE Len(s))
Rest(s, n) == SubSeq(s, (IF n < Len(s) THEN n ELSE Len(s)) + 1, Len(s))

\* the reverse of s
RECURSIVE Reverse(_)
Reverse(s) == IF s = <<>> THEN <<>> ELSE Reverse(Tail(s)) \o <<Head(s)>>

\* takeBetween that hands over the chunk newest first
takeReversed(q, p) ==
    [items |-> Reverse(Prefix(q, DefaultChunkSize)),
     queue |-> Rest(q, DefaultChunkSize)
               \o Prefix(p, QueueCapacity - Len(Rest(q, DefaultChunkSize))),
     putters |-> Rest(p, QueueCapacity - Len(Rest(q, DefaultChunkSize)))]

\* Queue.takeBetween(queue, 1, DefaultChunkSize), as Stream.fromQueue pulls:
\* the oldest batches, up to the chunk size; the room they leave is given to
\* the oldest suspended offers, which then complete.
takeBetween(q, p) ==
    [items |-> Prefix(q, DefaultChunkSize),
     queue |-> Rest(q, DefaultChunkSize)
               \o Prefix(p, QueueCapacity - Len(Rest(q, DefaultChunkSize))),
     putters |-> Rest(p, QueueCapacity - Len(Rest(q, DefaultChunkSize)))]

\* The first Stream.mapEffect: the events of one batch that have a key and a
\* remoteJid are normalized (without myNumber); the non-null results are kept
\* in order, each with its position <<batch number, index in the batch>>.
RECURSIVE processBatch(_, _, _)
processBatch(batch, i, clock) ==
    IF i > Len(batch.messages) THEN <<>>
    ELSE LET message == batch.messages[i]
             processed == IF message.hasKey /\ message.remoteJid # <<>>
                          THEN extractMessageDataEffect(message, <<>>, clock)
                          ELSE <<>>
         IN  (IF processed # <<>>
              THEN << [rec |-> processed[1], pos |-> <<batch.no, i>>] >>
              ELSE <<>>)
             \o processBatch(batch, i + 1, clock)

\* messages.upsert listener: Effect.runFork(Queue.offer(messageQueue, batch))
MessagesUpsert(b) ==
    /\ pc = "running"
    /\ "messages.upsert" \in listeners
    /\ delivered < MaxBatches
    /\ delivered' = delivered + 1
    /\ LET o == offer(queue, putters, [no |-> delivered + 1, messages |-> b])
       IN  /\ queue' = o.queue
           /\ putters' = o.putters
    /\ UNCHANGED <<pc, attempts, consumer, taken, pending, lastPos, messages, now,
                   sweepPc, fetched, dirty, swept, remarked, inserted, result,
                   overrun, logger, connVars, authVars,
                   summarized, callVars>>

\* Stream.fromQueue pulls the next chunk of batches once the previous chunk
\* is forwarded.
ConsumerTake ==
    /\ pc = "running"
    /\ consumer = "running"
    /\ pending = <<>>
    /\ taken = <<>>
    /\ queue # <<>>
    /\ LET t == takeBetween(queue, putters)
       IN  /\ queue' = t.queue
           /\ putters' = t.putters
           /\ taken' = t.items
    /\ UNCHANGED <<pc, attempts, delivered, consumer, pending, lastPos, messages, now,
                   sweepPc, fetched, dirty, swept, remarked, inserted, result,
                   overrun, logger, connVars, authVars,
                   summarized, callVars>>

\* The first Stream.mapEffect on the next batch of the chunk.
ConsumerNormalize ==
    /\ pc = "running"
    /\ consumer = "running"
    /\ pending = <<>>
    /\ taken # <<>>
    /\ pending' = processBatch(Head(taken), 1, now)
    /\ taken' = Tail(taken)
    /\ UNCHANGED <<pc, attempts, queue, putters, delivered, consumer, lastPos,
                   messages, now, sweepPc, fetched, dirty, swept, remarked,
                   inserted, result,
                   overrun, logger, connVars, authVars,
                   summarized, callVars>>

\* The last Stream.mapEffect: WhatsAppMessage.make throws on the next record.
\* The throw is a defect, which no catchAll handles: the stream ends, the
\* joined fiber fails the main program, its scope closes (the release of
\* connect() runs) and the forked logging routine is interrupted with it.
ConsumerDie ==
    /\ pc = "running"
    /\ consumer = "running"
    /\ pending # <<>>
    /\ ~MakeValid(Head(pending).rec)
    /\ consumer' = "dead"
    /\ pc' = "exited"
    /\ release
    /\ UNCHANGED <<attempts, queue, putters, delivered, taken, pending, lastPos,
                   messages, now, sweepPc, fetched, dirty, swept, remarked, inserted, result,
                   overrun, logger, transport, credsLog, authVars,
                   summarized, callVars>>

\* the callback of runForEach without its catchAll: a failed insert ends the stream
noCatchAll(ok) == IF ok THEN "running" ELSE "dead"

\* Effect.catchAll(() => Effect.log(...)) around the insert: the consumer goes
\* on whether the insert succeeded or failed.
catchAllInsert(ok) == "running"

\* Stream.runForEach: repository.insertMessage on the next record, any failure
\* caught by Effect.catchAll.  io = FALSE is a storage failure of the statement.
ConsumerInsert(io) ==
    /\ pc = "running"
    /\ consumer = "running"
    /\ pending # <<>>
    /\ MakeValid(Head(pending).rec)
    /\ LET h == Head(pending)
           r == IF io THEN insertMessage(messages, h.rec, now)
                ELSE [ok |-> FALSE, table |-> messages, rows |-> {}]
       IN  /\ messages' = r.table
           /\ inserted' = inserted \cup r.rows
           /\ result' = [op |-> "insert", id |-> h.rec.id, ok |-> r.ok, rows |-> r.rows]
           /\ dirty' = (dirty \/ (r.ok /\ sweepPc = "marking"))
           /\ lastPos' = h.pos
           /\ consumer' = catchAllInsert(r.ok)
    /\ pending' = Tail(pending)
    /\ UNCHANGED <<pc, attempts, queue, putters, delivered, taken, now,
                   sweepPc, fetched, swept, remarked,
                   overrun, logger, connVars, authVars,
                   summarized, callVars>>

(***************************************************************************)
(* Reconciliation scheduler: the sweep of startLogging, repeated by         *)
(* Effect.schedule(..., Schedule.fixed("2 seconds")).                       *)
(***************************************************************************)
ServicesLive == pc \in {"running", "direct"}

\* {id} when the row of id is stored and processed, else {}
AlreadyProcessed(tbl, id) == {r.id : r \in {q \in tbl : q.id = id /\ q.processed}}

\* a timer that starts a sweep at every period, whatever the previous one does
scheduleInterval(state) == TRUE

\* Effect.schedule(sweep, Schedule.fixed("2 seconds")): the sweep is run
\* again only when its previous run has completed; a run that outlasts the
\* period is followed by the next one at once.
scheduleFixed(state) == state = "idle"

\* a sweep without its catchAll: a failure ends the schedule
sweepUncaught(ok) == IF ok THEN "running" ELSE "ended"

\* Effect.catchAll(error => Effect.log(...)) around the sweep: the sweep
\* succeeds whatever its repository calls did, and the schedule goes on.
catchAllSweep(ok) == "running"

\* The sweep starts: getUnprocessedMessages.  ok = FALSE is a storage failure,
\* caught by the sweep's catchAll.
SweepFetch(ok) ==
    /\ ServicesLive
    /\ logger = "running"
    /\ scheduleFixed(sweepPc)
    /\ IF ~ok
       THEN UNCHANGED <<sweepPc, fetched, dirty, swept, summarized>>
       ELSE \E unprocessedMessages \in getUnprocessedMessages(messages) :
                IF unprocessedMessages = <<>>
                THEN UNCHANGED <<sweepPc, fetched, dirty, swept, summarized>>
                ELSE /\ sweepPc' = "marking"
                     /\ fetched' = unprocessedMessages
                     /\ dirty' = FALSE
                     /\ swept' = 0
                     /\ summarized' = {}
    /\ result' = [op |-> "list", id |-> NoId, ok |-> ok, rows |-> {}]
    /\ logger' = catchAllSweep(ok)
    /\ UNCHANGED <<pc, attempts, queue, putters, delivered, consumer, taken, pending,
                   lastPos, messages, now, remarked, inserted,
                   overrun, connVars, authVars,
                   callVars>>

\* The loop body on the next fetched record: the summary line, then
\* markAsProcessed.  A failure leaves the loop for the sweep's catchAll.
SweepMark(ok) ==
    /\ ServicesLive
    /\ logger = "running"
    /\ sweepPc = "marking"
    /\ LET message == Head(fetched)
           r == IF ok THEN markAsProcessed(messages, message.id)
                ELSE [ok |-> FALSE, table |-> messages, rows |-> {}]
       IN  /\ messages' = r.table
           /\ result' = [op |-> "mark", id |-> message.id, ok |-> r.ok, rows |-> r.rows]
           /\ logger' = catchAllSweep(r.ok)
           /\ summarized' = summarized \cup {message.id}
           /\ IF ~r.ok
              THEN /\ fetched' = <<>>
                   /\ sweepPc' = "idle"
                   /\ overrun' = FALSE
                   /\ UNCHANGED <<swept, remarked>>
              ELSE /\ fetched' = Tail(fetched)
                   /\ sweepPc' = IF Tail(fetched) = <<>> THEN "idle" ELSE "marking"
                   /\ overrun' = (overrun /\ Tail(fetched) # <<>>)
                   /\ swept' = swept + 1
                   /\ remarked' = remarked \cup AlreadyProcessed(messages, message.id)
    /\ UNCHANGED <<pc, attempts, queue, putters, delivered, consumer, taken, pending,
                   lastPos, now, dirty, inserted,
                   connVars, authVars,
                   callVars>>

\* The 2 seconds of Schedule.fixed run out while the sweep is still at work.
PeriodElapses ==
    /\ ServicesLive
    /\ logger = "running"
    /\ sweepPc = "marking"
    /\ ~overrun
    /\ overrun' = TRUE
    /\ UNCHANGED <<pc, attempts, queue, putters, delivered, consumer, taken, pending,
                   lastPos, messages, now, sweepPc, fetched, dirty, swept, remarked,
                   inserted, result, logger, connVars, authVars,
                   summarized, callVars>>

\* the wall clock advances
Tick ==
    /\ ServicesLive
    /\ now < MaxClock
    /\ now' = now + 1
    /\ UNCHANGED <<pc, attempts, queue, putters, delivered, consumer, taken, pending,
                   lastPos, messages, sweepPc, fetched, dirty, swept, remarked,
                   inserted, result,
                   overrun, logger, connVars, authVars,
                   summarized, callVars>>

(***************************************************************************)
(* The services driven by a direct caller: repository calls with records   *)
(* as the normalizer produces them, next to the sweep                      *)
(* (logUnprocessedMessages has the sweep's body).                          *)
(***************************************************************************)
DirectRecords ==
    {extractMessageDataEffect(e, MyJid, 0)[1] : e \in {EvText, EvImage, EvSent}}

\* an id no record carries
UnknownId == "m9"

DirectIds == {"m1", "m2", UnknownId}

\* repository.insertMessage(m); io = FALSE is a storage failure
InsertCall(m, io) ==
    /\ pc = "direct"
    /\ LET r == IF io THEN insertMessage(messages, m, now)
                ELSE [ok |-> FALSE, table |-> messages, rows |-> {}]
       IN  /\ messages' = r.table
           /\ inserted' = inserted \cup r.rows
           /\ result' = [op |-> "insert", id |-> m.id, ok |-> r.ok, rows |-> r.rows]
           /\ dirty' = (dirty \/ (r.ok /\ sweepPc = "marking"))
    /\ UNCHANGED <<pc, attempts, queue, putters, delivered, consumer, taken, pending,
                   lastPos, now, sweepPc, fetched, swept, remarked,
                   overrun, logger, connVars, authVars,
                   summarized, callVars>>

\* repository.markAsProcessed(id); io = FALSE is a storage failure
MarkCall(id, io) ==
    /\ pc = "direct"
    /\ LET r == IF io THEN markAsProcessed(messages, id)
                ELSE [ok |-> FALSE, table |-> messages, rows |-> {}]
       IN  /\ messages' = r.table
           /\ result' = [op |-> "mark", id |-> id, ok |-> r.ok, rows |-> r.rows]
           /\ remarked' = IF r.ok THEN remarked \cup AlreadyProcessed(messages, id)
                          ELSE remarked
    /\ UNCHANGED <<pc, attempts, queue, putters, delivered, consumer, taken, pending,
                   lastPos, now, sweepPc, fetched, dirty, swept, inserted,
                   overrun, logger, connVars, authVars,
                   summarized, callVars>>

(***************************************************************************)
(* Auth state store (part_003): credential and key blobs.                  *)
(* A blob is a record with its kind k and one field per kind: "null";      *)
(* "string" and "number" (s, the characters); "binary" (a Uint8Array or    *)
(* Buffer: b, its bytes); "array" (a, the elements); "object" (o, the      *)
(* members: a set of [key, val] with one member per key).                  *)
(***************************************************************************)
NullValue == [k |-> "null", s |-> <<>>, b |-> <<>>, a |-> <<>>, o |-> {}]
Str(chars) == [NullValue EXCEPT !.k = "string", !.s = chars]
Num(digits) == [NullValue EXCEPT !.k = "number", !.s = digits]
Binary(bytes) == [NullValue EXCEPT !.k = "binary", !.b = bytes]
Arr(elements) == [NullValue EXCEPT !.k = "array", !.a = elements]
Obj(members) == [NullValue EXCEPT !.k = "object", !.o = members]

\* obj[key], for a key obj has
Get(obj, key) == (CHOOSE m \in obj.o : m.key = key).val

\* key in obj
Has(obj, key) == \E m \in obj.o : m.key = key

\* a call that throws (TypeError)
Thrown == [NullValue EXCEPT !.k = "TypeError"]

\* the base64 alphabet
Base64Chars ==
    <<"A", "B", "C", "D", "E", "F", "G", "H", "I", "J", "K", "L", "M",
      "N", "O", "P", "Q", "R", "S", "T", "U", "V", "W", "X", "Y", "Z",
      "a", "b", "c", "d", "e", "f", "g", "h", "i", "j", "k", "l", "m",
      "n", "o", "p", "q", "r", "s", "t", "u", "v", "w", "x", "y", "z",
      "0", "1", "2", "3", "4", "5", "6", "7", "8", "9", "+", "/">>

\* Buffer.from(bytes).toString('base64'): three bytes give four characters,
\* the last group is padded with '='
RECURSIVE toBase64(_)
toBase64(b) ==
    IF b = <<>> THEN <<>>
    ELSE IF Len(b) = 1
    THEN <<Base64Chars[(b[1] \div 4) + 1], Base64Chars[(b[1] % 4) * 16 + 1], "=", "=">>
    ELSE IF Len(b) = 2
    THEN <<Base64Chars[(b[1] \div 4) + 1],
           Base64Chars[(b[1] % 4) * 16 + (b[2] \div 16) + 1],
           Base64Chars[(b[2] % 16) * 4 + 1], "=">>
    ELSE <<Base64Chars[(b[1] \div 4) + 1],
           Base64Chars[(b[1] % 4) * 16 + (b[2] \div 16) + 1],
           Base64Chars[(b[2] % 16) * 4 + (b[3] \div 64) + 1],
           Base64Chars[(b[3] % 64) + 1]>> \o toBase64(SubSeq(b, 4, Len(b)))

\* the 6-bit values of the base64 characters of s up to the first '=';
\* characters outside the alphabet are skipped
RECURSIVE Sextets(_)
Sextets(s) ==
    IF s = <<>> \/ Head(s) = "=" THEN <<>>
    ELSE IF \E i \in 1..64 : Base64Chars[i] = Head(s)
    THEN <<(CHOOSE i \in 1..64 : Base64Chars[i] = Head(s)) - 1>> \o Sextets(Tail(s))
    ELSE Sextets(Tail(s))

\* the bytes of a sequence of 6-bit values: four give three bytes, a rest of
\* two or three gives one or two bytes, a rest of one gives none
RECURSIVE SextetBytes(_)
SextetBytes(x) ==
    IF Len(x) < 2 THEN <<>>
    ELSE IF Len(x) = 2 THEN <<x[1] * 4 + (x[2] \div 16)>>
    ELSE IF Len(x) = 3
    THEN <<x[1] * 4 + (x[2] \div 16), (x[2] % 16) * 16 + (x[3] \div 4)>>
    ELSE <<x[1] * 4 + (x[2] \div 16), (x[2] % 16) * 16 + (x[3] \div 4),
           (x[3] % 4) * 64 + x[4]>> \o SextetBytes(SubSeq(x, 5, Len(x)))

\* Buffer.from(s, 'base64')
fromBase64(s) == SextetBytes(Sextets(s))

\* the tag of an encoded binary: __type: 'binary'
BinaryTag == Str(<<"b", "i", "n", "a", "r", "y">>)

\* serializeBinaryData: a Uint8Array or Buffer becomes the tagged object with
\* its bytes in base64; arrays and objects are mapped member by member;
\* anything else is returned as it is.
RECURSIVE serializeBinaryData(_)
serializeBinaryData(obj) ==
    IF obj.k = "binary"
    THEN Obj({[key |-> "__type", val |-> BinaryTag],
              [key |-> "data", val |-> Str(toBase64(obj.b))]})
    ELSE IF obj.k = "array"
    THEN Arr([i \in DOMAIN obj.a |-> serializeBinaryData(obj.a[i])])
    ELSE IF obj.k = "object"
    THEN Obj({[key |-> m.key, val |-> serializeBinaryData(m.val)] : m \in obj.o})
    ELSE obj

\* deserializeBinaryData: every object whose __type is 'binary' becomes the
\* Uint8Array of its data (Buffer.from throws when data is no string: missing,
\* null or a number); arrays and objects are mapped member by member, a throw
\* among the members being the throw of the call; anything else is returned
\* as it is.
RECURSIVE deserializeBinaryData(_)
deserializeBinaryData(obj) ==
    IF obj.k = "object" /\ Has(obj, "__type") /\ Get(obj, "__type") = BinaryTag
    THEN (IF Has(obj, "data") /\ Get(obj, "data").k = "string"
          THEN Binary(fromBase64(Get(obj, "data").s))
          ELSE Thrown)
    ELSE IF obj.k = "array"
    THEN LET elements == [i \in DOMAIN obj.a |-> deserializeBinaryData(obj.a[i])]
         IN  IF \E i \in DOMAIN obj.a : elements[i] = Thrown
             THEN Thrown
             ELSE Arr(elements)
    ELSE IF obj.k = "object"
    THEN LET members == {[key |-> m.key, val |-> deserializeBinaryData(m.val)] : m \in obj.o}
         IN  IF \E m \in members : m.val = Thrown
             THEN Thrown
             ELSE Obj(members)
    ELSE obj

\* a token of JSON text: punctuation, null, a string or number with its
\* characters, or a member key
Tok(t, s) == [t |-> t, s |-> s]

\* the elements of a set in a fixed order
RECURSIVE SetToSeq(_)
SetToSeq(S) ==
    IF S = {} THEN <<>>
    ELSE LET x == CHOOSE y \in S : TRUE IN <<x>> \o SetToSeq(S \ {x})

\* JSON.stringify on a blob without binaries: the text as its tokens
RECURSIVE JSONstringify(_)
RECURSIVE stringifyElements(_)
RECURSIVE stringifyMembers(_)
stringifyElements(a) ==
    IF a = <<>> THEN <<>>
    ELSE JSONstringify(Head(a))
         \o (IF Tail(a) = <<>> THEN <<>> ELSE <<Tok(",", <<>>)>> \o stringifyElements(Tail(a)))

stringifyMembers(ms) ==
    IF ms = <<>> THEN <<>>
    ELSE <<Tok("key", <<Head(ms).key>>), Tok(":", <<>>)>> \o JSONstringify(Head(ms).val)
         \o (IF Tail(ms) = <<>> THEN <<>> ELSE <<Tok(",", <<>>)>> \o stringifyMembers(Tail(ms)))

JSONstringify(value) ==
    IF value.k = "array"
    THEN <<Tok("[", <<>>)>> \o stringifyElements(value.a) \o <<Tok("]", <<>>)>>
    ELSE IF value.k = "object"
    THEN <<Tok("{", <<>>)>> \o stringifyMembers(SetToSeq(value.o)) \o <<Tok("}", <<>>)>>
    ELSE <<Tok(value.k, value.s)>>

\* JSON.parse: the blob of the text that starts at token i, and the position
\* after it
RECURSIVE parseValue(_, _)
RECURSIVE parseElements(_, _, _)
RECURSIVE parseMembers(_, _, _)
parseElements(text, i, acc) ==
    LET e == parseValue(text, i)
    IN  IF text[e.next].t = ","
        THEN parseElements(text, e.next + 1, Append(acc, e.val))
        ELSE [val |-> Arr(Append(acc, e.val)), next |-> e.next + 1]

parseMembers(text, i, acc) ==
    LET e == parseValue(text, i + 2)
        members == {m \in acc : m.key # text[i].s[1]}
                   \cup {[key |-> text[i].s[1], val |-> e.val]}
    IN  IF text[e.next].t = ","
        THEN parseMembers(text, e.next + 1, members)
        ELSE [val |-> Obj(members), next |-> e.next + 1]

parseValue(text, i) ==
    IF text[i].t = "["
    THEN (IF text[i + 1].t = "]"
          THEN [val |-> Arr(<<>>), next |-> i + 2]
          ELSE parseElements(text, i + 1, <<>>))
    ELSE IF text[i].t = "{"
    THEN (IF text[i + 1].t = "}"
          THEN [val |-> Obj({}), next |-> i + 2]
          ELSE parseMembers(text, i + 1, {}))
    ELSE [val |-> [NullValue EXCEPT !.k = text[i].t, !.s = text[i].s], next |-> i + 1]

JSONparse(text) == parseValue(text, 1).val

(***************************************************************************)
(* Auth state repository: tables auth_credentials (one row per session)    *)
(* and auth_keys (one row per session, key type and key id).               *)
(***************************************************************************)
\* saveCredentials: INSERT OR REPLACE of the session's row with the encoded
\* credentials
saveCredentials(tbl, sessionId, creds) ==
    {r \in tbl : r.session_id # sessionId}
    \cup {[session_id |-> sessionId,
           credentials_data |-> JSONstringify(serializeBinaryData(creds))]}

\* loadCredentials: null when the session has no row, else the decoded
\* credentials
loadCredentials(tbl, sessionId) ==
    LET rows == {r \in tbl : r.session_id = sessionId}
    IN  IF rows = {} THEN NullValue
        ELSE deserializeBinaryData(JSONparse((CHOOSE r \in rows : TRUE).credentials_data))

\* the entries of a SignalDataSet in the order of the two loops of saveKeys;
\* a key type without entries (undefined, {}) gives none
RECURSIVE Entries(_)
Entries(data) ==
    IF data = <<>> THEN <<>>
    ELSE [i \in DOMAIN Head(data).keyEntries |->
             [keyType |-> Head(data).keyType,
              keyId |-> Head(data).keyEntries[i].keyId,
              keyData |-> Head(data).keyEntries[i].keyData]]
         \o Entries(Tail(data))

\* the rows of one key slot
Slot(tbl, sessionId, keyType, keyId) ==
    {r \in tbl : r.session_id = sessionId /\ r.key_type = keyType /\ r.key_id = keyId}

\* the statement of one entry: DELETE for keyData === null, else
\* INSERT OR REPLACE of the encoded key
saveKey(tbl, sessionId, entry) ==
    IF entry.keyData = NullValue
    THEN tbl \ Slot(tbl, sessionId, entry.keyType, entry.keyId)
    ELSE (tbl \ Slot(tbl, sessionId, entry.keyType, entry.keyId))
         \cup {[session_id |-> sessionId, key_type |-> entry.keyType,
                key_id |-> entry.keyId,
                key_data |-> JSONstringify(serializeBinaryData(entry.keyData))]}

\* saveKeys with its first n statements executed (all of them unless a
\* statement fails)
RECURSIVE saveKeys(_, _, _, _)
saveKeys(tbl, sessionId, entries, n) ==
    IF entries = <<>> \/ n = 0 THEN tbl
    ELSE saveKeys(saveKey(tbl, sessionId, Head(entries)), sessionId, Tail(entries), n - 1)

\* loadKeys: {} for no ids, else the decoded key of every row of the session
\* and type whose key_id is among ids, as an object keyed by key_id
loadKeys(tbl, sessionId, type, ids) ==
    IF ids = {} THEN Obj({})
    ELSE LET rows == {r \in tbl : /\ r.session_id = sessionId
                                    /\ r.key_type = type
                                    /\ r.key_id \in ids}
             keyMap == {[key |-> row.key_id,
                         val |-> deserializeBinaryData(JSONparse(row.key_data))] :
                        row \in rows}
         IN  IF \E m \in keyMap : m.val = Thrown THEN Thrown ELSE Obj(keyMap)

\* a clearSession that deletes the rows of every session
clearEverySession(creds, keys, sessionId, n) ==
    [auth_credentials |-> IF n >= 1 THEN {} ELSE creds,
     auth_keys |-> IF n >= 2 THEN {} ELSE keys]

\* clearSession with its first n statements executed: DELETE of the session's
\* row of auth_credentials, then DELETE of its rows of auth_keys
clearSession(creds, keys, sessionId, n) ==
    [auth_credentials |-> IF n >= 1 THEN {r \in creds : r.session_id # sessionId}
                          ELSE creds,
     auth_keys |-> IF n >= 2 THEN {r \in keys : r.session_id # sessionId}
                   ELSE keys]

(***************************************************************************)
(* The auth state repository driven by a caller.                           *)
(***************************************************************************)
SessionIds == {"s1", "s2"}
KeyTypes == {"pre-key", "session"}
KeyIds == {"1", "2"}

Member(key, val) == [key |-> key, val |-> val]

\* a key pair, a serialized session, and a plain object that has the
\* members of an encoded binary
KeyPair == Obj({Member("public", Binary(<<5, 6>>)), Member("private", Binary(<<255>>))})
SessionBlob == Binary(<<1, 2, 3>>)
TaggedPlain == Obj({Member("__type", BinaryTag), Member("data", Str(<<"A", "A", "=", "=">>))})

CredsBlobs ==
    {Obj({Member("noiseKey", KeyPair), Member("registrationId", Num(<<"7">>)),
          Member("me", NullValue),
          Member("processedHistoryMessages", Arr(<<Binary(<<>>), Str(<<"x">>)>>))}),
     Obj({Member("noiseKey", Obj({Member("public", Binary(<<77, 97, 110, 0>>))}))})}

KeyEntry(keyId, keyData) == [keyId |-> keyId, keyData |-> keyData]

\* the SignalDataSets given to saveKeys
SignalDataSets ==
    {<<[keyType |-> "pre-key",
        keyEntries |-> <<KeyEntry("1", KeyPair), KeyEntry("2", SessionBlob)>>]>>,
     <<[keyType |-> "pre-key",
        keyEntries |-> <<KeyEntry("1", NullValue)>>],
       [keyType |-> "session", keyEntries |-> <<KeyEntry("1", SessionBlob)>>]>>,
     <<[keyType |-> "pre-key", keyEntries |-> <<>>],
       [keyType |-> "session", keyEntries |-> <<KeyEntry("1", TaggedPlain)>>]>>,
     <<[keyType |-> "session",
        keyEntries |-> <<KeyEntry("1", NullValue), KeyEntry("2", NullValue)>>]>>}

\* latest after the first n entries: per key slot the value last written,
\* no row for a slot last deleted
RECURSIVE LatestAfter(_, _, _, _)
LatestAfter(lt, sessionId, entries, n) ==
    IF entries = <<>> \/ n = 0 THEN lt
    ELSE LET entry == Head(entries)
             others == lt \ Slot(lt, sessionId, entry.keyType, entry.keyId)
         IN  LatestAfter(IF entry.keyData = NullValue THEN others
                         ELSE others \cup {[session_id |-> sessionId,
                                            key_type |-> entry.keyType,
                                            key_id |-> entry.keyId,
                                            value |-> entry.keyData]},
                         sessionId, Tail(entries), n - 1)

AuthOutcome(op, sessionId, ok, changes) ==
    [op |-> op, session |-> sessionId, ok |-> ok, changes |-> changes]

\* repository.saveCredentials(sessionId, creds); io = FALSE is a storage failure
SaveCredentials(sessionId, creds, io) ==
    /\ pc = "direct"
    /\ auth_credentials' = IF io THEN saveCredentials(auth_credentials, sessionId, creds)
                           ELSE auth_credentials
    /\ authResult' = AuthOutcome("saveCredentials", sessionId, io, 0)
    /\ UNCHANGED <<pc, attempts, queue, putters, delivered, consumer, taken, pending,
                   lastPos, messages, now, sweepPc, fetched, dirty, swept, remarked,
                   inserted, result, overrun, logger, connVars, auth_keys, latest,
                   summarized, callVars>>

\* repository.loadCredentials(sessionId); the call fails when the decoding
\* throws
LoadCredentials(sessionId) ==
    /\ pc = "direct"
    /\ authResult' = AuthOutcome("loadCredentials", sessionId,
                                 loadCredentials(auth_credentials, sessionId) # Thrown, 0)
    /\ UNCHANGED <<pc, attempts, queue, putters, delivered, consumer, taken, pending,
                   lastPos, messages, now, sweepPc, fetched, dirty, swept, remarked,
                   inserted, result, overrun, logger, connVars, auth_credentials,
                   auth_keys, latest,
                   summarized, callVars>>

\* repository.saveKeys(sessionId, data); n statements succeed, the call
\* succeeds when all of them do
SaveKeys(sessionId, data, n) ==
    /\ pc = "direct"
    /\ n \in 0..Len(Entries(data))
    /\ auth_keys' = saveKeys(auth_keys, sessionId, Entries(data), n)
    /\ latest' = LatestAfter(latest, sessionId, Entries(data), n)
    /\ authResult' = AuthOutcome("saveKeys", sessionId, n = Len(Entries(data)), 0)
    /\ UNCHANGED <<pc, attempts, queue, putters, delivered, consumer, taken, pending,
                   lastPos, messages, now, sweepPc, fetched, dirty, swept, remarked,
                   inserted, result, overrun, logger, connVars, auth_credentials,
                   summarized, callVars>>

\* repository.loadKeys(sessionId, type, ids); the call fails when the decoding
\* throws
LoadKeys(sessionId, type, ids) ==
    /\ pc = "direct"
    /\ authResult' = AuthOutcome("loadKeys", sessionId,
                                 loadKeys(auth_keys, sessionId, type, ids) # Thrown, 0)
    /\ UNCHANGED <<pc, attempts, queue, putters, delivered, consumer, taken, pending,
                   lastPos, messages, now, sweepPc, fetched, dirty, swept, remarked,
                   inserted, result, overrun, logger, connVars, auth_credentials,
                   auth_keys, latest,
                   summarized, callVars>>

\* repository.clearSession(sessionId); n of its two statements succeed;
\* changes counts the rows deleted
ClearSession(sessionId, n) ==
    /\ pc = "direct"
    /\ LET r == clearSession(auth_credentials, auth_keys, sessionId, n)
       IN  /\ auth_credentials' = r.auth_credentials
           /\ auth_keys' = r.auth_keys
           /\ latest' = {q \in latest : \E row \in r.auth_keys :
                             /\ row.session_id = q.session_id
                             /\ row.key_type = q.key_type
                             /\ row.key_id = q.key_id}
           /\ authResult' = AuthOutcome("clearSession", sessionId, n = 2,
                                        Cardinality(auth_credentials \ r.auth_credentials)
                                        + Cardinality(auth_keys \ r.auth_keys))
    /\ UNCHANGED <<pc, attempts, queue, putters, delivered, consumer, taken, pending,
                   lastPos, messages, now, sweepPc, fetched, dirty, swept, remarked,
                   inserted, result, overrun, logger, connVars,
                   summarized, callVars>>

NoResult == [op |-> "none", id |-> NoId, ok |-> TRUE, rows |-> {}]

NoAuthResult == AuthOutcome("none", NoId, TRUE, 0)

\* no direct call of the normalizer yet
NoEvent == RawEvent(FALSE, NoId, <<>>, FALSE, <<>>, 0, NoMessage)

NotCalled == [called |-> FALSE, myNumber |-> <<>>, out |-> <<>>]

\* no summary line built yet
NotLogged == [logged |-> FALSE, text |-> <<>>]

Init ==
    /\ pc = "connecting"
    /\ attempts = 0
    /\ queue = <<>>
    /\ putters = <<>>
    /\ delivered = 0
    /\ consumer = "running"
    /\ taken = <<>>
    /\ pending = <<>>
    /\ lastPos = <<0, 0>>
    /\ messages = {}
    /\ now = 0
    /\ sweepPc = "idle"
    /\ fetched = <<>>
    /\ dirty = FALSE
    /\ swept = 0
    /\ remarked = {}
    /\ inserted = {}
    /\ result = NoResult
    /\ overrun = FALSE
    /\ logger = "running"
    /\ transport = NoTransport
    /\ listeners = {}
    /\ socketEnded = FALSE
    /\ released = 0
    /\ credsLog = <<>>
    /\ auth_credentials = {}
    /\ auth_keys = {}
    /\ latest = {}
    /\ authResult = NoAuthResult
    /\ summarized = {}
    /\ rawEvent = NoEvent
    /\ normalized = NotCalled
    /\ logContent = <<>>
    /\ logLine = NotLogged

Next ==
    \/ ConnectFail
    \/ ConnectSucceed
    \/ ConnectReturn
    \/ \E b \in Batches : MessagesUpsert(b)
    \/ ConsumerTake
    \/ ConsumerNormalize
    \/ ConsumerDie
    \/ \E io \in BOOLEAN : ConsumerInsert(io)
    \/ \E ok \in BOOLEAN : SweepFetch(ok)
    \/ \E ok \in BOOLEAN : SweepMark(ok)
    \/ Tick

Spec == Init /\ [][Next]_vars

\* The program under fair scheduling.  The consumer fiber and the logging
\* fiber are forked on the Effect runtime, which runs every fiber that can
\* take a step (weak fairness of the consumer's steps); the schedule starts
\* a sweep again and again, and a repository call that is made again and
\* again does not fail every time (strong fairness of the successful insert,
\* fetch and mark).
Fairness ==
    /\ WF_vars(ConsumerTake)
    /\ WF_vars(ConsumerNormalize)
    /\ WF_vars(ConsumerDie)
    /\ SF_vars(ConsumerInsert(TRUE))
    /\ SF_vars(SweepFetch(TRUE))
    /\ SF_vars(SweepMark(TRUE))

LiveSpec == Spec /\ Fairness

RepoInit ==
    /\ pc = "direct"
    /\ attempts = 0
    /\ queue = <<>>
    /\ putters = <<>>
    /\ delivered = 0
    /\ consumer = "running"
    /\ taken = <<>>
    /\ pending = <<>>
    /\ lastPos = <<0, 0>>
    /\ messages = {}
    /\ now = 0
    /\ sweepPc = "idle"
    /\ fetched = <<>>
    /\ dirty = FALSE
    /\ swept = 0
    /\ remarked = {}
    /\ inserted = {}
    /\ result = NoResult
    /\ overrun = FALSE
    /\ logger = "running"
    /\ transport = NoTransport
    /\ listeners = {}
    /\ socketEnded = FALSE
    /\ released = 0
    /\ credsLog = <<>>
    /\ auth_credentials = {}
    /\ auth_keys = {}
    /\ latest = {}
    /\ authResult = NoAuthResult
    /\ summarized = {}
    /\ rawEvent = NoEvent
    /\ normalized = NotCalled
    /\ logContent = <<>>
    /\ logLine = NotLogged

RepoNext ==
    \/ \E m \in DirectRecords, io \in BOOLEAN : InsertCall(m, io)
    \/ \E id \in DirectIds, io \in BOOLEAN : MarkCall(id, io)
    \/ \E ok \in BOOLEAN : SweepFetch(ok)
    \/ \E ok \in BOOLEAN : SweepMark(ok)
    \/ PeriodElapses
    \/ Tick

RepoSpec == RepoInit /\ [][RepoNext]_vars

(***************************************************************************)
(* The session connector with the events of its socket, the close of its   *)
(* scope and the termination signals, without message traffic.              *)
(***************************************************************************)
\* SIGINT or SIGTERM: the handler logs and calls process.exit(0); the process
\* ends where it stands, no scope is closed and no finalizer runs.
Signal ==
    /\ pc \in {"connecting", "waiting", "running"}
    /\ pc' = "terminated"
    /\ UNCHANGED <<attempts, queue, putters, delivered, consumer, taken, pending,
                   lastPos, messages, now, sweepPc, fetched, dirty, swept, remarked,
                   inserted, result, overrun, logger, connVars, authVars,
                   summarized, callVars>>

ConnNext ==
    \/ ConnectFail
    \/ ConnectSucceed
    \/ ConnectReturn
    \/ \E c \in {"open", "close"}, r \in DisconnectReasons \cup {"none"} :
            ConnectionUpdate(c, r)
    \/ \E ok \in BOOLEAN : CredsUpdate(ok)
    \/ ScopeClose
    \/ Signal

ConnSpec == Init /\ [][ConnNext]_vars

(***************************************************************************)
(* The auth state repository driven by a caller, on empty tables.          *)
(***************************************************************************)
AuthNext ==
    \/ \E sessionId \in SessionIds, creds \in CredsBlobs, io \in BOOLEAN :
            SaveCredentials(sessionId, creds, io)
    \/ \E sessionId \in SessionIds : LoadCredentials(sessionId)
    \/ \E sessionId \in SessionIds, data \in SignalDataSets, n \in 0..2 :
            SaveKeys(sessionId, data, n)
    \/ \E sessionId \in SessionIds, type \in KeyTypes, ids \in SUBSET KeyIds :
            LoadKeys(sessionId, type, ids)
    \/ \E sessionId \in SessionIds, n \in 0..2 : ClearSession(sessionId, n)

AuthSpec == RepoInit /\ [][AuthNext]_vars

(***************************************************************************)
(* The pure functions called by a direct caller: extractMessageData on one *)
(* raw event, and the content part of the summary line on one content.     *)
(***************************************************************************)
\* message.content.length > 50 ? message.content.substring(0, 50) + "..."
TruncateAt == 50
\* Longest content a summary line is built for in the model.
MaxContent == 52

Ellipsis == <<".", ".", ".">>

\* the summary line cut one character late
truncateOffByOne(content) ==
    IF Len(content) > TruncateAt + 1
    THEN SubSeq(content, 1, TruncateAt) \o Ellipsis
    ELSE content

\* truncatedContent of the loop body of the sweep
truncatedContent(content) ==
    IF Len(content) > TruncateAt
    THEN SubSeq(content, 1, TruncateAt) \o Ellipsis
    ELSE content

Digits == <<"0", "1", "2", "3", "4", "5", "6", "7", "8", "9">>

\* a content of n characters, no two neighbours alike
Content(n) == [i \in 1..n |-> Digits[(i % 10) + 1]]

Contents == { Content(n) : n \in 0..MaxContent }

\* the payloads: every combination of the variants the chain tests
Payloads ==
    {NoMessage} \cup
    { [present |-> TRUE, conversation |-> c, extendedText |-> x,
       image |-> i[1], imageCaption |-> i[2], video |-> v[1],
       videoCaption |-> v[2], audio |-> a, sticker |-> s,
       document |-> d[1], fileName |-> d[2]] :
        c \in {<<>>, <<"h", "i">>}, x \in {<<>>, <<"y", "o">>},
        i \in {<<FALSE, <<>> >>, <<TRUE, <<>> >>, <<TRUE, <<"c", "1">> >>},
        v \in {<<FALSE, <<>> >>, <<TRUE, <<>> >>, <<TRUE, <<"c", "2">> >>},
        a \in BOOLEAN, s \in BOOLEAN,
        d \in {<<FALSE, <<>> >>, <<TRUE, <<>> >>, <<TRUE, <<"f">> >>} }

\* the raw events: every shape of the key and the timestamp on a text, and
\* every payload on an inbound and an outbound event of both kinds
RawEvents ==
    { RawEvent(k, id, jid, fromMe, p, ts, TextMessage(<<"h", "i">>)) :
        k \in BOOLEAN, id \in {"m1", "", NoId},
        jid \in {<<>>, DirectJid, GroupJid}, fromMe \in BOOLEAN,
        p \in {<<>>, ParticipantJid}, ts \in {0, 1, InvalidTs} }
    \cup
    { RawEvent(TRUE, "m1", jid, fromMe, <<>>, 1, msg) :
        jid \in {DirectJid, GroupJid}, fromMe \in BOOLEAN, msg \in Payloads }

\* extractMessageData(message, myNumber) called by a direct caller
Normalize(myNumber) ==
    /\ pc = "direct"
    /\ rawEvent # NoEvent
    /\ ~normalized.called
    /\ normalized' = [called |-> TRUE, myNumber |-> myNumber,
                      out |-> extractMessageDataEffect(rawEvent, myNumber, now)]
    /\ UNCHANGED <<pc, attempts, queue, putters, delivered, consumer, taken, pending,
                   lastPos, messages, now, sweepPc, fetched, dirty, swept, remarked,
                   inserted, result, overrun, logger, connVars, authVars,
                   summarized, rawEvent, logContent, logLine>>

\* the loop body builds the content part of the summary line of one record
Summarize ==
    /\ pc = "direct"
    /\ rawEvent = NoEvent
    /\ ~logLine.logged
    /\ logLine' = [logged |-> TRUE, text |-> truncatedContent(logContent)]
    /\ UNCHANGED <<pc, attempts, queue, putters, delivered, consumer, taken, pending,
                   lastPos, messages, now, sweepPc, fetched, dirty, swept, remarked,
                   inserted, result, overrun, logger, connVars, authVars,
                   summarized, rawEvent, normalized, logContent>>

CallInit ==
    /\ pc = "direct"
    /\ attempts = 0
    /\ queue = <<>>
    /\ putters = <<>>
    /\ delivered = 0
    /\ consumer = "running"
    /\ taken = <<>>
    /\ pending = <<>>
    /\ lastPos = <<0, 0>>
    /\ messages = {}
    /\ now = 0
    /\ sweepPc = "idle"
    /\ fetched = <<>>
    /\ dirty = FALSE
    /\ swept = 0
    /\ remarked = {}
    /\ inserted = {}
    /\ result = NoResult
    /\ overrun = FALSE
    /\ logger = "running"
    /\ transport = NoTransport
    /\ listeners = {}
    /\ socketEnded = FALSE
    /\ released = 0
    /\ credsLog = <<>>
    /\ auth_credentials = {}
    /\ auth_keys = {}
    /\ latest = {}
    /\ authResult = NoAuthResult
    /\ summarized = {}
    /\ normalized = NotCalled
    /\ logLine = NotLogged
    /\ \/ rawEvent \in RawEvents /\ logContent = <<>>
       \/ rawEvent = NoEvent /\ logContent \in Contents

CallNext ==
    \/ \E myNumber \in {<<>>, MyJid} : Normalize(myNumber)
    \/ Summarize

CallSpec == CallInit /\ [][CallNext]_vars

(***************************************************************************)
(* Properties.                                                             *)
(***************************************************************************)
\* delivery positions in order: earlier batch, or same batch and earlier index
PosLess(a, b) == a[1] < b[1] \/ (a[1] = b[1] /\ a[2] < b[2])

\* C1: a batch the callback delivers while the queue holds its full capacity
\* is dropped: the queue is unchanged and no offer stays suspended.
C1_FullQueueDropsBatch ==
    [][(delivered' = delivered + 1 /\ Len(queue) = QueueCapacity)
        => (queue' = queue /\ putters' = <<>>)]_vars

\* C2: when every attempt fails, connect() makes exactly 5 attempts: there is
\* never a 6th, and the terminal error comes after the 5th.
C2_FiveAttemptsInTotal ==
    /\ attempts <= 5
    /\ pc = "failed" => attempts = 5

\* C3: no raw event terminates the ingestion consumer.
C3_ConsumerSurvivesEveryEvent == consumer = "running"

\* C4: a failed insert of the consumer is caught: the step leaves the consumer
\* and the program running, and exactly the records and batches that follow
\* the failed one remain to be forwarded.
C4_InsertFailureCaught ==
    [][((\E io \in BOOLEAN : ConsumerInsert(io)) /\ ~result'.ok)
        => /\ consumer' = "running"
           /\ pc' = "running"
           /\ pending' = Tail(pending)
           /\ taken' = taken
           /\ queue' = queue
           /\ putters' = putters]_vars

\* the insert of m2 (position <<1, 2>>) failed and the record after it in the
\* same batch was inserted
C4_Witness ==
    /\ consumer = "running"
    /\ lastPos = <<1, 3>>
    /\ result = [op |-> "insert", id |-> "m1", ok |-> TRUE, rows |-> result.rows]
    /\ HasId(messages, "m1")
    /\ ~HasId(messages, "m2")

\* C5: the consumer's inserts are attempted in delivery order: every insert is
\* of a record delivered after the record of the previous insert (a later
\* batch, or later in the same batch).
C5_InsertsInDeliveryOrder ==
    [][lastPos' # lastPos => PosLess(lastPos, lastPos')]_vars

\* records of a batch delivered beyond the queue's capacity have been inserted
\* after those of an earlier batch
C5_Witness ==
    /\ lastPos[1] > QueueCapacity
    /\ Cardinality(messages) = 2

\* C6: a stored record that is processed stays stored and processed in every
\* step.
C6_ProcessedNeverReverts ==
    [][\A r \in messages :
          r.processed => \E q \in messages' : q.id = r.id /\ q.processed]_vars

\* an insert with the id of a record that a sweep has marked processed failed
C6_Witness ==
    /\ result.op = "insert"
    /\ ~result.ok
    /\ swept > 0
    /\ \E r \in messages : r.id = result.id /\ r.processed

\* C7: at most one row per id; an insert of a stored id fails and leaves the
\* table as it is; no step removes the row of an id.
C7_OneRecordPerId ==
    [][/\ \A r1, r2 \in messages' : r1.id = r2.id => r1 = r2
       /\ \A r \in messages : HasId(messages', r.id)
       /\ \A m \in DirectRecords, io \in BOOLEAN :
            (InsertCall(m, io) /\ HasId(messages, m.id))
              => (~result'.ok /\ messages' = messages)]_vars

\* an insert of a stored, processed record's id failed at a later time than
\* the record's creation
C7_Witness ==
    /\ result.op = "insert"
    /\ ~result.ok
    /\ \E r \in messages : r.id = result.id /\ r.processed /\ r.createdAt < now

\* C8: markAsProcessed on a record that is already processed succeeds, returns
\* the record and leaves the table as it is.
C8_MarkProcessedIdempotent ==
    [][\A id \in DirectIds :
          (MarkCall(id, TRUE) /\ AlreadyProcessed(messages, id) # {})
            => /\ result'.ok
               /\ result'.rows = {r \in messages : r.id = id}
               /\ messages' = messages]_vars

\* a second markAsProcessed on a record has succeeded
C8_Witness ==
    /\ result.op = "mark"
    /\ result.ok
    /\ result.id \in remarked
    /\ \E r \in messages : r.id = result.id /\ r.processed

\* C9: markAsProcessed with an id that is not stored fails.
C9_UnknownIdFails ==
    (result.op = "mark" /\ ~HasId(messages, result.id)) => ~result.ok

\* C10: a sweep that ends without a failure and without an insert since its
\* fetch leaves no unprocessed record, and every record equals the row its
\* insert returned in all fields but processed.
C10_CleanSweepMarksAll ==
    [][(sweepPc = "marking" /\ sweepPc' = "idle" /\ result'.ok /\ ~dirty)
        => /\ Unprocessed(messages') = {}
           /\ \A r \in messages' : [r EXCEPT !.processed = FALSE] \in inserted]_vars

\* one sweep has marked three records and ended, with no insert meanwhile
C10_Witness ==
    /\ sweepPc = "idle"
    /\ result.op = "mark"
    /\ result.ok
    /\ ~dirty
    /\ swept = 3
    /\ Unprocessed(messages) = {}

\* C11: sweeps never overlap.  Every start of a sweep (its fetch) is taken
\* when no sweep is in progress, with nothing left to mark of the previous
\* one, also when that one outlasted the 2 second period.
C11_SweepsNeverOverlap ==
    [][(\E ok \in BOOLEAN : SweepFetch(ok)) => (sweepPc = "idle" /\ fetched = <<>>)]_vars

\* a sweep that has marked a record, is still marking and has outlasted the period
C11_Witness == overrun /\ sweepPc = "marking" /\ swept >= 1

\* C12: a failed sweep does not end the schedule.  After a failed fetch or a
\* failed markAsProcessed the schedule is running and idle, so that the next
\* sweep can start, whatever failed before.
C12_FailedSweepKeepsSchedule ==
    [][(SweepFetch(FALSE) \/ SweepMark(FALSE))
        => (logger' = "running" /\ sweepPc' = "idle" /\ pc' = pc)]_vars

\* a sweep has failed on markAsProcessed after marking a record, and the
\* next sweep can start and has the record it failed on to fetch
C12_Witness ==
    /\ result.op = "mark" /\ ~result.ok
    /\ swept >= 1
    /\ \E r \in Unprocessed(messages) : r.id = result.id
    /\ ENABLED SweepFetch(TRUE)

\* C13: an open connection that drops for a reason other than logout is
\* re-established.  The step in which the open socket reports such a close
\* puts the connector back to connecting, where a new attempt is made.
C13_DropReconnects ==
    [][(transport.connection = "open" /\ ConnectionUpdate("close", "connectionLost"))
        => pc' = "connecting"]_vars

\* C14: logged out is terminal.  Once the socket has reported a close with
\* the logged-out reason, no further connection attempt is started and the
\* reported state stays as it is.
C14_LoggedOutIsTerminal ==
    [][(transport.connection = "close" /\ transport.lastDisconnect = "loggedOut")
        => (attempts' = attempts /\ transport' = transport /\ pc' # "connecting")]_vars

\* the open socket of a returned connection has reported the logged-out
\* close, and the scope was closed afterwards
C14_Witness ==
    /\ transport = [connection |-> "close", lastDisconnect |-> "loggedOut"]
    /\ pc = "exited"
    /\ attempts >= 2

\* C15: getConnectionState returns the current state.  It returns open only
\* while the last state the socket reported is open.
C15_StateIsCurrent == getConnectionState = "open" => transport.connection = "open"

\* C16: the release runs exactly once on scope exit and leaves nothing
\* behind.  The release never runs twice; once the scope of a returned
\* connection is closed it has run, no listener is registered and the socket
\* has been ended; while an attempt is retried, or after the last one failed,
\* no socket with listeners exists.
C16_ReleaseOnScopeExit ==
    /\ released <= 1
    /\ pc = "exited" => (released = 1 /\ listeners = {} /\ socketEnded)
    /\ pc \in {"connecting", "failed"} => (listeners = {} /\ transport = NoTransport)
    /\ pc \in {"waiting", "running"} => (released = 0 /\ ~socketEnded)

\* the scope of a connection returned by the third attempt was closed while
\* its socket was open and all three listeners were registered
C16_Witness ==
    /\ pc = "exited"
    /\ released = 1
    /\ attempts = 3
    /\ transport.connection = "open"
    /\ credsLog # <<>>

\* C17: a failed credential save is logged and goes no further.  The step of
\* a creds.update whose saveCreds rejects leaves the program's position, the
\* connection state, the listeners and the attempts as they are, so that the
\* next creds.update is handled.
C17_CredsFailureNotPropagated ==
    [][CredsUpdate(FALSE)
        => (pc' = pc /\ transport' = transport /\ listeners' = listeners
            /\ attempts' = attempts /\ released' = released)]_vars

\* a credential save succeeded after an earlier one failed during the
\* acquisition, on a connection that was returned and is open
C17_Witness ==
    /\ credsLog = <<"failed", "saved">>
    /\ pc = "running"
    /\ transport.connection = "open"
    /\ "creds.update" \in listeners

\* C18: encoding then decoding is the identity.  Every key blob given to
\* saveKeys, a plain object with the members of an encoded binary among
\* them, is what deserializeBinaryData gives for its serializeBinaryData.
C18_RoundTripIsIdentity ==
    \A q \in latest : deserializeBinaryData(serializeBinaryData(q.value)) = q.value

\* what loadKeys is to return by the entries written: the requested ids whose
\* slot of (session, type) was last written with a value, each with that value
LatestKeys(sessionId, type, ids) ==
    Obj({[key |-> q.key_id, val |-> q.value] :
         q \in {x \in latest : /\ x.session_id = sessionId
                                /\ x.key_type = type
                                /\ x.key_id \in ids}})

\* C19: loadKeys returns the latest written values.  For every session, key
\* type and set of ids, loadKeys returns exactly the requested ids last
\* written with a value, each mapped to that value; ids never written or last
\* deleted are left out and no ids give the empty object.
C19_LoadKeysReturnsLatest ==
    \A sessionId \in SessionIds, type \in KeyTypes, ids \in SUBSET (KeyIds \cup {"9"}) :
        loadKeys(auth_keys, sessionId, type, ids) = LatestKeys(sessionId, type, ids)

\* C20: clearSession removes the rows of its session and nothing else.  After
\* every successful clearSession(s), loadCredentials(s) is null, loadKeys of s
\* is empty for every type and ids, the rows of the other sessions are the
\* same as before, and nothing at all has changed when s had no rows.
C20_ClearSessionRemovesOnlyItsRows ==
    [][\A s \in SessionIds :
        ClearSession(s, 2) =>
            /\ authResult'.ok
            /\ loadCredentials(auth_credentials', s) = NullValue
            /\ \A type \in KeyTypes, ids \in SUBSET KeyIds :
                   loadKeys(auth_keys', s, type, ids) = Obj({})
            /\ {r \in auth_credentials' : r.session_id # s}
                 = {r \in auth_credentials : r.session_id # s}
            /\ {r \in auth_keys' : r.session_id # s}
                 = {r \in auth_keys : r.session_id # s}
            /\ (\A r \in auth_credentials \cup auth_keys : r.session_id # s)
                 => (auth_credentials' = auth_credentials /\ auth_keys' = auth_keys)]_vars

\* a clearSession has deleted the credentials and two keys of its session,
\* and the other session has its credentials and keys
C20_Witness ==
    /\ authResult.op = "clearSession" /\ authResult.ok
    /\ authResult.changes = 3
    /\ \E r \in auth_credentials : r.session_id # authResult.session
    /\ \E r \in auth_keys : r.session_id # authResult.session

(***************************************************************************)
(* Event normalizer, called on one raw event (CallSpec).                   *)
(***************************************************************************)
\* the raw event carries a message identifier and a conversation identifier
HasIdentifiers(e) == e.hasKey /\ e.id \notin {NoId, ""} /\ e.remoteJid # <<>>

MessageTypes == {"text", "image", "video", "audio", "sticker", "document", "other"}

\* n is x without its service suffixes: what stands before the first "@" or ":"
IsNumberOf(n, x) ==
    /\ Len(n) <= Len(x)
    /\ SubSeq(x, 1, Len(n)) = n
    /\ \A i \in 1..Len(n) : n[i] \notin {"@", ":"}
    /\ Len(n) = Len(x) \/ x[Len(n) + 1] \in {"@", ":"}

\* C21: normalize returns the absent result for every raw event that lacks a
\* message identifier or a conversation identifier; it never returns a record
\* whose id or conversation identifier is missing or empty.
C21_AbsentWithoutIdentifiers ==
    (normalized.called /\ ~HasIdentifiers(rawEvent)) => normalized.out = <<>>

\* C22 as stated: for every raw event with a non-empty id and conversation
\* identifier, whatever else it carries, normalize returns a record with the
\* event's id and conversation identifier and a type of the enumeration.
C22_RecordForEveryIdentifiedEvent ==
    (normalized.called /\ HasIdentifiers(rawEvent)) =>
        /\ normalized.out # <<>>
        /\ normalized.out[1].id = rawEvent.id
        /\ normalized.out[1].chat_id = rawEvent.remoteJid
        /\ normalized.out[1].messageType \in MessageTypes

\* C22 amended: for every raw event with a non-empty id and conversation
\* identifier whose timestamp is absent or one that Date can represent,
\* whatever its payload, normalize returns a record with the event's id and
\* conversation identifier and a type of the enumeration; on a timestamp
\* outside the range of Date it returns the absent result.
C22_RecordForConvertibleTimestamp ==
    (normalized.called /\ HasIdentifiers(rawEvent)) =>
        IF rawEvent.messageTimestamp = InvalidTs
        THEN normalized.out = <<>>
        ELSE /\ normalized.out # <<>>
             /\ normalized.out[1].id = rawEvent.id
             /\ normalized.out[1].chat_id = rawEvent.remoteJid
             /\ normalized.out[1].messageType \in MessageTypes

\* an identified event without any payload variant became a record of type other
C22_Witness ==
    /\ normalized.called
    /\ HasIdentifiers(rawEvent)
    /\ rawEvent.message = NoMessage
    /\ normalized.out # <<>>
    /\ normalized.out[1].id = "m1"
    /\ normalized.out[1].messageType = "other"

\* C23 as stated: outbound gives from = local identity and to = conversation
\* identifier; inbound in a group gives from = the participant identifier of
\* the event and to = local identity; inbound in a direct conversation gives
\* from = conversation identifier and to = local identity; each reduced to its
\* number.
C23_PartiesByDirectionAndKind ==
    (normalized.called /\ normalized.out # <<>>) =>
        LET rec == normalized.out[1]
            mine == normalized.myNumber
        IN  IF rawEvent.fromMe
                THEN IsNumberOf(rec.from, mine) /\ IsNumberOf(rec.to, rawEvent.remoteJid)
            ELSE IF Includes(rawEvent.remoteJid, GroupSuffix)
                THEN IsNumberOf(rec.from, rawEvent.participant) /\ IsNumberOf(rec.to, mine)
            ELSE IsNumberOf(rec.from, rawEvent.remoteJid) /\ IsNumberOf(rec.to, mine)

\* C23 amended: as stated, except that an inbound group event that carries no
\* participant identifier gives from = the number of the conversation
\* identifier.
C23_PartiesWithGroupFallback ==
    (normalized.called /\ normalized.out # <<>>) =>
        LET rec == normalized.out[1]
            mine == normalized.myNumber
        IN  IF rawEvent.fromMe
                THEN IsNumberOf(rec.from, mine) /\ IsNumberOf(rec.to, rawEvent.remoteJid)
            ELSE IF Includes(rawEvent.remoteJid, GroupSuffix)
                THEN /\ rawEvent.participant # <<>> =>
                            IsNumberOf(rec.from, rawEvent.participant)
                     /\ rawEvent.participant = <<>> =>
                            IsNumberOf(rec.from, rawEvent.remoteJid)
                     /\ IsNumberOf(rec.to, mine)
            ELSE IsNumberOf(rec.from, rawEvent.remoteJid) /\ IsNumberOf(rec.to, mine)

\* an inbound group event with a participant, normalized with the local identity
C23_Witness ==
    /\ normalized.called
    /\ normalized.myNumber = MyJid
    /\ ~rawEvent.fromMe
    /\ rawEvent.remoteJid = GroupJid
    /\ rawEvent.participant = ParticipantJid
    /\ normalized.out # <<>>
    /\ normalized.out[1].from = <<"6">>
    /\ normalized.out[1].to = <<"9", "9">>

\* C24: content and type are chosen by the first matching payload variant in
\* the order plain text, extended text, image, video, audio, sticker,
\* document, unrecognized; an image or video yields its caption when it has
\* one and [Image] / [Video] otherwise; no variant yields type other.
C24_FirstMatchingVariantDecides ==
    (normalized.called /\ normalized.out # <<>>) =>
        LET rec == normalized.out[1]
            mi == rawEvent.message
            present == <<mi.conversation # <<>>, mi.extendedText # <<>>, mi.image,
                         mi.video, mi.audio, mi.sticker, mi.document>>
            types == <<"text", "text", "image", "video", "audio", "sticker", "document">>
            first == { i \in 1..7 : present[i] /\ \A j \in 1..(i - 1) : ~present[j] }
        IN  /\ first = {} => rec.messageType = "other"
            /\ \A i \in first : rec.messageType = types[i]
            /\ 1 \in first => rec.content = mi.conversation
            /\ 2 \in first => rec.content = mi.extendedText
            /\ 3 \in first =>
                    rec.content = IF mi.imageCaption # <<>> THEN mi.imageCaption
                                  ELSE <<"[", "I", "m", "a", "g", "e", "]">>
            /\ 4 \in first =>
                    rec.content = IF mi.videoCaption # <<>> THEN mi.videoCaption
                                  ELSE <<"[", "V", "i", "d", "e", "o", "]">>

\* an event with an image with a caption and a video, and no text: the image decides
C24_Witness ==
    /\ normalized.called
    /\ rawEvent.message.conversation = <<>>
    /\ rawEvent.message.extendedText = <<>>
    /\ rawEvent.message.image
    /\ rawEvent.message.imageCaption = <<"c", "1">>
    /\ rawEvent.message.video
    /\ normalized.out # <<>>
    /\ normalized.out[1].messageType = "image"
    /\ normalized.out[1].content = <<"c", "1">>

(***************************************************************************)
(* The summary line (CallSpec).                                            *)
(***************************************************************************)
\* C25: in the summary line, content of length at most 50 is emitted
\* unchanged and longer content as its first 50 characters followed by the
\* ellipsis; 50 is not truncated, 51 is.
C25_TruncationBoundary ==
    logLine.logged =>
        IF Len(logContent) <= 50
        THEN logLine.text = logContent
        ELSE /\ Len(logLine.text) = 53
             /\ SubSeq(logLine.text, 1, 50) = SubSeq(logContent, 1, 50)
             /\ SubSeq(logLine.text, 51, 53) = <<".", ".", ".">>

\* a content of 51 characters was cut to 50 and the ellipsis
C25_Witness ==
    /\ logLine.logged
    /\ Len(logContent) = 51
    /\ Len(logLine.text) = 53
    /\ logLine.text[50] = logContent[50]
    /\ logLine.text[51] = "."

(***************************************************************************)
(* Failure of a mark within a sweep (RepoSpec).                            *)
(***************************************************************************)
\* C26: within one sweep a markAsProcessed failure on one fetched record is
\* isolated to that record.  The step of a failed mark leaves the records
\* fetched after it to be summarized and marked by the same sweep.
C26_MarkFailureIsolated ==
    [][SweepMark(FALSE) =>
        /\ fetched' = Tail(fetched)
        /\ Tail(fetched) # <<>> => sweepPc' = "marking"]_vars

(***************************************************************************)
(* Acquisition and shutdown of the connection (ConnSpec).                  *)
(***************************************************************************)
\* C27: connect() returns the transport handle only after the transport has
\* reported the open connection state.  At the step that returns the socket,
\* the last state the socket reported is open.
C27_ReturnsOnlyWhenOpen ==
    [][ConnectReturn => transport.connection = "open"]_vars

\* C28: on a termination signal the connection's scope is closed.  When the
\* process has exited on a signal after the socket was created, the release
\* has run: no listener is registered and the socket has been ended.
C28_SignalReleases ==
    (pc = "terminated" /\ transport # NoTransport) =>
        (released = 1 /\ listeners = {} /\ socketEnded)

(***************************************************************************)
(* Sweep next to the pipeline's inserts (Spec).                            *)
(***************************************************************************)
\* ids of the records the running sweep has fetched: those still to do and
\* those it has summarized
OwnFetch == summarized \cup {fetched[i].id : i \in 1..Len(fetched)}

\* C29: a sweep marks only records of its own fetch, and none before its
\* summary.  A step of the loop body turns processed no row but the record it
\* has just summarized; a row outside the sweep's fetch (inserted while the
\* sweep runs) is left as it is by every step of the sweep, so that it is
\* unprocessed when the sweep ends; and the next fetch returns every
\* unprocessed row.
C29_SweepMarksOnlyItsFetch ==
    [][/\ \A ok \in BOOLEAN :
            SweepMark(ok) =>
                /\ \A r \in messages' :
                        (r.processed /\ r \notin messages) =>
                            (r.id = Head(fetched).id /\ r.id \in summarized')
                /\ \A r \in messages : r.id \notin OwnFetch => r \in messages'
                /\ \A r \in messages' : \E q \in messages : q.id = r.id
       /\ SweepFetch(TRUE) =>
                \A r \in Unprocessed(messages) :
                    \E i \in 1..Len(fetched') : fetched'[i] = r]_vars

\* a sweep has ended with its last mark while a row inserted during the sweep
\* is unprocessed and outside its fetch
C29_Witness ==
    /\ sweepPc = "idle"
    /\ result.op = "mark" /\ result.ok
    /\ dirty
    /\ swept >= 1
    /\ \E r \in messages : ~r.processed /\ r.id \notin summarized
    /\ \E r \in messages : r.processed /\ r.id \in summarized

(***************************************************************************)
(* Local identity in the persisted records (Spec).                         *)
(***************************************************************************)
\* C30: records persisted by the pipeline carry the local identity.  Every
\* stored outbound record has from = the local account's number and every
\* stored inbound record has to = the local account's number.
C30_PersistedCarryLocalIdentity ==
    \A r \in messages :
        IF r.isFromMe THEN r.from = <<"9", "9">> ELSE r.to = <<"9", "9">>

(***************************************************************************)
(* Progress of the reconciliation (LiveSpec).                              *)
(***************************************************************************)
\* the row of this id is stored
Persisted(id) == \E r \in messages : r.id = id

\* the row of this id is stored and marked processed
Swept(id) == \E r \in messages : r.id = id /\ r.processed

\* C31: every record the pipeline persists is eventually marked processed.
\* Under fair scheduling of the consumer and the scheduler, with repository
\* calls that do not fail forever, each stored row is unprocessed at first
\* and is marked processed later.
C31_PersistedEventuallyProcessed ==
    \A id \in {EvText.id, EvImage.id} : Persisted(id) ~> Swept(id)

====
